---- MODULE Spec2Model ----
(***************************************************************************)
(* Model of src-tauri/src/lib.rs: the request lifecycle registry           *)
(* (RequestAbortState), the two cancellable commands built on it           *)
(* (quick_answer, translate_text), the cancel commands, and the streaming  *)
(* chat decoder (chat_stream).                                             *)
(***************************************************************************)
EXTENDS Integers, Sequences, FiniteSets, TLC

\* ---------------------------------------------------------------- bounds
MaxRequests == 2      \* command invocations (tasks) in one behaviour
MaxBytes    == 6      \* bytes the response stream delivers at most
MaxChatBytes == 3     \* the same, where the chat runs beside the registry
MaxToolCalls == 2     \* tool calls one completion response carries at most

\* ------------------------------------------------------------ vocabulary
Req      == 1..MaxRequests
Commands == {"quick_answer", "translate_text"}
Slots    == {"quick_answer", "translation"}

\* Option<RequestSlot>: None, or Some(RequestSlot { id, handle }).  A handle
\* is named by the task whose AbortHandle::new_pair() created it.
None == [id |-> 0, handle |-> 0]
RequestSlot(i, h) == [id |-> i, handle |-> h]

VARIABLES
  counter,        \* RequestAbortState.counter (AtomicU64)
  slots,          \* RequestAbortState.quick_answer / .translation
  aborts,         \* per handle: number of AbortHandle::abort() calls
  pc,             \* per task: position in the command
  kind,           \* per task: the command it runs
  id,             \* per task: request_id returned by start_request
  outcome,        \* per task: what Abortable::new(..).await produced
  ret,            \* per task: value the command returned to its caller
  finishCalls,    \* per task: number of finish_request calls it made
  installed,      \* per slot: generations installed, in installation order
  cleared,        \* generations whose finish_request emptied the slot
  last,           \* the registry/command step taken last
  cancelReturns,  \* values the cancel commands returned, by slot occupancy
  spc,            \* chat_stream: position
  buffer,         \* chat_stream: `buffer` (incomplete line)
  events,         \* chat_stream: events emitted to the frontend, in order
  sret,           \* chat_stream: returned value
  nbytes,         \* the response stream: bytes it has yielded so far
  received,       \* the response stream: the bytes it has yielded, in order
  status,         \* the response: response.status() of the streaming call
  qpc,            \* quick_answer future: position
  qin,            \* quick_answer future: the command's arguments
  messages,       \* quick_answer future: `messages`
  sent,           \* message lists posted to /api/chat, in order
  first,          \* outcome of the first completion call (Option)
  second,         \* outcome of the second completion call (Option)
  toolResults,    \* quick_answer future: `tool_results`
  tcIndex,        \* quick_answer future: position in `for tool_call in ..`
  execs,          \* queries execute_web_search was invoked with, in order
  searches,       \* outbound calls to the search API
  qret,           \* value of the quick_answer future (Option)
  tpc,            \* translate_text: position in the command
  tin,            \* translate_text: arguments
  tcalls,         \* target languages passed to translate_with_target
  tres,           \* results of those calls, in order
  tret            \* value translate_text returned (Option)

regVars    == <<counter, slots, aborts, pc, kind, id, outcome, ret,
                finishCalls, installed, cleared, cancelReturns>>
streamVars == <<spc, buffer, events, sret, nbytes, received, status>>
qaVars     == <<qpc, qin, messages, sent, first, second, toolResults,
                tcIndex, execs, searches, qret>>
trVars     == <<tpc, tin, tcalls, tres, tret>>
vars       == <<counter, slots, aborts, pc, kind, id, outcome, ret,
                finishCalls, installed, cleared, last, cancelReturns,
                spc, buffer, events, sret, nbytes, received, status,
                qpc, qin, messages, sent, first, second, toolResults,
                tcIndex, execs, searches, qret,
                tpc, tin, tcalls, tres, tret>>

\* ------------------------------------------------------- registry (pure)
\* A counter that is read but not advanced hands out the same id again.
next_id_reused(c) == IF c = 0 THEN 1 ELSE c

\* fetch_add(1) + 1
next_id(c) == c + 1

\* Every wrapper locking the quick_answer mutex.
SlotOf_shared(cmd) == "quick_answer"

\* start_quick_answer / finish_quick_answer / cancel_quick_answer use
\* self.quick_answer; the *_translation wrappers use self.translation.
SlotOf(cmd) == IF cmd = "quick_answer" THEN "quick_answer" ELSE "translation"

\* The occupant is dropped without prev.handle.abort().
AbortPrev_dropped(ab, occ) == ab

\* guard.take() followed by prev.handle.abort(): the abort calls made on
\* the previous occupant by start_request and by cancel_request.
AbortPrev(ab, occ) ==
  IF occ # None THEN [ab EXCEPT ![occ.handle] = @ + 1] ELSE ab

\* guard.take() without the id comparison.
FinishSlot_unconditional(occ, g) == None

\* finish_request leaves the occupant in place.
FinishSlot_never(occ, g) == occ

\* Slot content after finish_request(slot, g).
FinishSlot(occ, g) == IF occ # None /\ occ.id = g THEN None ELSE occ

\* The occupant's id is not returned.
CancelValue_none(occ) == 0

\* Value of cancel_request: Some(prev.id) (the id) or None (0).
CancelValue(occ) == IF occ # None THEN occ.id ELSE 0

\* A command that fails when nothing was cancelled.
CancelCommandReturn_err(opt) == IF opt = 0 THEN "Err" ELSE "Ok(())"

\* What the cancel commands return to the frontend: the Option is only
\* logged, the command answers Ok(()) in both cases.
CancelCommandReturn(opt) == "Ok(())"

\* The inner future awaited without the abort check.
Abortable_unchecked(isAborted, inner) == inner

\* Abortable::poll: the abort flag is looked at before the inner future.
Abortable(isAborted, inner) == IF isAborted THEN {"Aborted"} ELSE inner

\* The inner future of quick_answer / translate_text, reduced to its exit
\* paths: the early "Empty text" return, a failure, a final result.
Texts == {"blank", "text"}
RequestFuture(text) == IF text = "blank" THEN {"EmptyText"} ELSE {"Ok", "Err"}

\* The value the inner future resolved to, as the caller sees it.
InnerReturn(o) ==
  CASE o = "EmptyText" -> "Empty text"
    [] o = "Ok"        -> "result"
    [] o = "Err"       -> "error"

\* An Err(_) arm that returns without state.finish_*(request_id).
MatchArm_nofinish(o) ==
  IF o = "Aborted" THEN [finish |-> FALSE, ret |-> "Cancelled"]
                   ELSE [finish |-> TRUE, ret |-> InnerReturn(o)]

\* match Abortable::new(request_future, abort_registration).await { .. }:
\* whether the arm calls state.finish_*(request_id), and what it returns.
MatchArm(o) ==
  IF o = "Aborted" THEN [finish |-> TRUE, ret |-> "Cancelled"]
                   ELSE [finish |-> TRUE, ret |-> InnerReturn(o)]

Step(op, cmd, r, g) == [op |-> op, cmd |-> cmd, req |-> r, gen |-> g]

\* ------------------------------------------------------ registry actions
\* A command is invoked: AbortHandle::new_pair(), then self.next_id().
\* The slot lock is not held yet.
start_request_next_id(r, cmd) ==
  /\ pc[r] = "idle"
  /\ \A q \in Req : q < r => pc[q] # "idle"
  /\ counter' = next_id(counter)
  /\ id' = [id EXCEPT ![r] = next_id(counter)]
  /\ kind' = [kind EXCEPT ![r] = cmd]
  /\ pc' = [pc EXCEPT ![r] = "lock"]
  /\ last' = Step("next_id", cmd, r, next_id(counter))
  /\ UNCHANGED <<slots, aborts, outcome, ret, finishCalls, installed,
                 cleared, cancelReturns>>

\* start_request under the slot lock: abort and replace the occupant.
start_request(r) ==
  /\ pc[r] = "lock"
  /\ LET s == SlotOf(kind[r]) IN
       /\ aborts' = AbortPrev(aborts, slots[s])
       /\ slots' = [slots EXCEPT ![s] = RequestSlot(id[r], r)]
       /\ installed' = [installed EXCEPT ![s] = Append(@, id[r])]
  /\ pc' = [pc EXCEPT ![r] = "await"]
  /\ last' = Step("start", kind[r], r, id[r])
  /\ UNCHANGED <<counter, kind, id, outcome, ret, finishCalls, cleared,
                 cancelReturns>>

\* Abortable::new(request_future, abort_registration).await completes.
\* (A poll that returns Pending changes nothing and is not a step.)
AbortableAwait(r) ==
  /\ pc[r] = "await"
  /\ \E text \in Texts :
       \E o \in Abortable(aborts[r] > 0, RequestFuture(text)) :
         outcome' = [outcome EXCEPT ![r] = o]
  /\ pc' = [pc EXCEPT ![r] = "finish"]
  /\ last' = Step("await", kind[r], r, id[r])
  /\ UNCHANGED <<counter, slots, aborts, kind, id, ret, finishCalls,
                 installed, cleared, cancelReturns>>

\* Both match arms: state.finish_*(request_id), then return.
finish_request(r) ==
  /\ pc[r] = "finish"
  /\ LET s   == SlotOf(kind[r])
         arm == MatchArm(outcome[r])
         new == IF arm.finish THEN FinishSlot(slots[s], id[r]) ELSE slots[s]
     IN /\ slots' = [slots EXCEPT ![s] = new]
        /\ cleared' = IF new # slots[s] THEN cleared \cup {id[r]} ELSE cleared
        /\ finishCalls' =
             [finishCalls EXCEPT ![r] = IF arm.finish THEN @ + 1 ELSE @]
        /\ ret' = [ret EXCEPT ![r] = arm.ret]
  /\ pc' = [pc EXCEPT ![r] = "done"]
  /\ last' = Step("finish", kind[r], r, id[r])
  /\ UNCHANGED <<counter, aborts, kind, id, outcome, installed,
                 cancelReturns>>

\* cancel_quick_answer / cancel_translate_text: cancel_request on the slot.
cancel_request(cmd) ==
  LET s == SlotOf(cmd)
      occ == slots[s]
      opt == CancelValue(occ)
      was == IF occ # None THEN "inflight" ELSE "empty"
  IN /\ aborts' = AbortPrev(aborts, occ)
     /\ slots' = [slots EXCEPT ![s] = None]
     /\ cancelReturns' =
          [cancelReturns EXCEPT ![was] = @ \cup {CancelCommandReturn(opt)}]
     /\ last' = Step("cancel", cmd, 0, opt)
     /\ UNCHANGED <<counter, pc, kind, id, outcome, ret, finishCalls,
                    installed, cleared>>

\* ------------------------------------------------------ chat_stream (pure)
\* Bytes of the response body.  "nl" is b'\n'.  A line is a JSON document
\* of the ChatResponse shape when it is "{" followed by content bytes "c"
\* (message.content, empty when there is none) and an optional final "d"
\* (done: true); any other line ("x" is a byte that fits nowhere) fails
\* to parse.
Byte == {"nl", "{", "c", "d", "x"}

\* response.status(): is_success() or not.
Statuses == {"200 OK", "404 Not Found"}

\* The chunks (empty ones included) a stream with n bytes left can yield.
Chunks(n) == UNION {[1..k -> Byte] : k \in 0..n}

TokenEvent(content) == [type |-> "ollama://token", content |-> content]
DoneEvent == [type |-> "ollama://done", content |-> <<>>]

\* buffer.iter().position(|&b| b == b'\n'), 0 when there is none
RECURSIVE NewlinePos(_, _)
NewlinePos(buf, i) ==
  IF i > Len(buf) THEN 0
  ELSE IF buf[i] = "nl" THEN i ELSE NewlinePos(buf, i + 1)

\* serde_json::from_slice::<ChatResponse>(&line); the line still carries
\* its newline, which the parser accepts as trailing whitespace.
ParseLine(line) ==
  LET body == SubSeq(line, 1, Len(line) - 1)
      n == Len(body)
      hasDone == n >= 2 /\ body[n] = "d"
      content == SubSeq(body, 2, IF hasDone THEN n - 1 ELSE n)
  IN IF n >= 1 /\ body[1] = "{" /\ \A i \in 1..Len(content) : content[i] = "c"
       THEN [ok |-> TRUE, content |-> content, done |-> hasDone]
       ELSE [ok |-> FALSE, content |-> <<>>, done |-> FALSE]

\* A loop that emits the done event and goes on with the lines behind it.
RECURSIVE DrainLines_continue(_, _)
DrainLines_continue(buf, evs) ==
  LET pos == NewlinePos(buf, 1) IN
    IF pos = 0
      THEN [buffer |-> buf, events |-> evs,
            returned |-> \E i \in 1..Len(evs) : evs[i].type = "ollama://done"]
    ELSE
      LET line == SubSeq(buf, 1, pos)
          rest == SubSeq(buf, pos + 1, Len(buf))
          resp == ParseLine(line)
          evs1 == IF resp.ok /\ resp.content # <<>>
                    THEN Append(evs, TokenEvent(resp.content)) ELSE evs
      IN IF Len(line) <= 1 \/ ~resp.ok THEN DrainLines_continue(rest, evs)
         ELSE IF resp.done THEN DrainLines_continue(rest, Append(evs1, DoneEvent))
         ELSE DrainLines_continue(rest, evs1)

\* A loop that a line failing to parse ends for this chunk.
RECURSIVE DrainLines_abort(_, _)
DrainLines_abort(buf, evs) ==
  LET pos == NewlinePos(buf, 1) IN
    IF pos = 0 THEN [buffer |-> buf, events |-> evs, returned |-> FALSE]
    ELSE
      LET line == SubSeq(buf, 1, pos)
          rest == SubSeq(buf, pos + 1, Len(buf))
          resp == ParseLine(line)
          evs1 == IF resp.ok /\ resp.content # <<>>
                    THEN Append(evs, TokenEvent(resp.content)) ELSE evs
      IN IF Len(line) <= 1 THEN DrainLines_abort(rest, evs)
         ELSE IF ~resp.ok
           THEN [buffer |-> rest, events |-> evs, returned |-> FALSE]
         ELSE IF resp.done
           THEN [buffer |-> rest, events |-> Append(evs1, DoneEvent),
                 returned |-> TRUE]
           ELSE DrainLines_abort(rest, evs1)

\* The inner `while let Some(newline_pos)` loop over the buffer: the
\* remaining buffer, the events emitted so far, and whether the loop left
\* through `return Ok(())` on a done line.
RECURSIVE DrainLines(_, _)
DrainLines(buf, evs) ==
  LET pos == NewlinePos(buf, 1) IN
    IF pos = 0 THEN [buffer |-> buf, events |-> evs, returned |-> FALSE]
    ELSE
      LET line == SubSeq(buf, 1, pos)
          rest == SubSeq(buf, pos + 1, Len(buf))
          resp == ParseLine(line)
          evs1 == IF resp.ok /\ resp.content # <<>>
                    THEN Append(evs, TokenEvent(resp.content)) ELSE evs
      IN IF Len(line) <= 1 THEN DrainLines(rest, evs)
         ELSE IF ~resp.ok THEN DrainLines(rest, evs)
         ELSE IF resp.done
           THEN [buffer |-> rest, events |-> Append(evs1, DoneEvent),
                 returned |-> TRUE]
           ELSE DrainLines(rest, evs1)

\* The chunk overwrites what was buffered: a line split over two chunks
\* loses its first part.
Extend_overwrite(buf, bytes) == bytes

\* buffer.extend_from_slice(&bytes)
Extend(buf, bytes) == buf \o bytes

\* The stream ended and nothing is emitted for it.
EndOfStream_silent(evs) == evs

\* After the loop: app.emit("ollama://done", ()).
EndOfStream(evs) == Append(evs, DoneEvent)

\* --------------------------------------------------- chat_stream actions
\* client.post(..).send().await fails: `?` returns the error.
send_err ==
  /\ spc = "connect"
  /\ spc' = "returned"
  /\ sret' = "Err(Failed to connect to Ollama)"
  /\ last' = Step("send_err", "chat_stream", 0, 0)
  /\ UNCHANGED <<buffer, events, nbytes, received, status>>

\* client.post(..).send().await succeeds with a response of status st;
\* response.bytes_stream() is taken without looking at response.status().
send_ok(st) ==
  /\ spc = "connect"
  /\ spc' = "reading"
  /\ status' = st
  /\ last' = Step("send_ok", "chat_stream", 0, 0)
  /\ UNCHANGED <<buffer, events, sret, nbytes, received>>

\* stream.next().await yields Some(Ok(bytes)).
stream_chunk(bytes) ==
  /\ spc = "reading"
  /\ LET d == DrainLines(Extend(buffer, bytes), events) IN
       /\ buffer' = d.buffer
       /\ events' = d.events
       /\ spc' = IF d.returned THEN "returned" ELSE "reading"
       /\ sret' = IF d.returned THEN "Ok(())" ELSE sret
  /\ nbytes' = nbytes + Len(bytes)
  /\ received' = received \o bytes
  /\ UNCHANGED status
  /\ last' = Step("stream_chunk", "chat_stream", 0, 0)

\* stream.next().await yields Some(Err(e)): `?` returns the error.
stream_err ==
  /\ spc = "reading"
  /\ spc' = "returned"
  /\ sret' = "Err(Stream error)"
  /\ last' = Step("stream_err", "chat_stream", 0, 0)
  /\ UNCHANGED <<buffer, events, nbytes, received, status>>

\* The bytes left in the buffer are decoded as a last line.
stream_end_flush ==
  /\ spc = "reading"
  /\ LET d == DrainLines(buffer \o <<"nl">>, events) IN
       events' = IF d.returned THEN d.events ELSE EndOfStream(d.events)
  /\ spc' = "returned"
  /\ sret' = "Ok(())"
  /\ last' = Step("stream_end", "chat_stream", 0, 0)
  /\ UNCHANGED <<buffer, nbytes, received, status>>

\* stream.next().await yields None: the loop ends.
stream_end ==
  /\ spc = "reading"
  /\ events' = EndOfStream(events)
  /\ spc' = "returned"
  /\ sret' = "Ok(())"
  /\ last' = Step("stream_end", "chat_stream", 0, 0)
  /\ UNCHANGED <<buffer, nbytes, received, status>>

\* ---------------------------------------------------- quick_answer (pure)
\* Strings are sequences of pieces; " " is white space.  Option<T> is a
\* sequence of no or one T.
Some(x) == <<x>>
Absent == <<>>
UnwrapOrDefault(o) == IF o = Absent THEN <<>> ELSE o[1]

RECURSIVE TrimStart(_)
TrimStart(str) ==
  IF str # <<>> /\ Head(str) = " " THEN TrimStart(Tail(str)) ELSE str

RECURSIVE TrimEnd(_)
TrimEnd(str) ==
  IF str # <<>> /\ str[Len(str)] = " "
    THEN TrimEnd(SubSeq(str, 1, Len(str) - 1)) ELSE str

\* str::trim
Trim(str) == TrimEnd(TrimStart(str))

\* The arguments the frontend passes.
QTexts   == {<<>>, <<" ">>, <<"capital of France?">>}
UrlArgs  == {Absent, Some(<<" ">>), Some(<<"https://search">>)}
KeyArgs  == {Absent, Some(<<" ">>), Some(<<"key">>)}

\* What the completion backend can answer.
Contents == {<<>>, <<"Paris.">>}
ToolCallValues ==
  [name : {"web_search"}, query : {<<>>, <<"capital">>, <<"weather">>}]
    \cup [name : {"calculator"}, query : {<<"capital">>}]
ToolCallLists == UNION {[1..k -> ToolCallValues] : k \in 0..MaxToolCalls}
FirstMessages ==
  [content : Contents, tool_calls : {Absent} \cup {Some(l) : l \in ToolCallLists}]
SecondMessages ==
  [content : Contents,
   tool_calls : {Absent, Some(<<[name |-> "web_search", query |-> <<"weather">>]>>)}]
Failures == {"connect", "status", "read", "parse"}
CallOutcomes(msgs) ==
  [kind : Failures, message : {Absent}]
    \cup [kind : {"ok"}, message : {Absent} \cup {Some(m) : m \in msgs}]
SearchOutcomes == {"connect", "status", "read", "ok"}

SystemMsg == [role |-> "system", content |-> <<"QUICK_ANSWER_SYSTEM_PROMPT">>,
              tool_calls |-> Absent, tool_name |-> Absent]
UserMsg(text, think) ==
  [role |-> "user",
   content |-> text \o (IF think THEN <<" /think">> ELSE <<" /no_think">>),
   tool_calls |-> Absent, tool_name |-> Absent]
AssistantMsg(m) ==
  [role |-> "assistant", content |-> m.content, tool_calls |-> m.tool_calls,
   tool_name |-> Absent]
ToolMsg(res) ==
  [role |-> "tool", content |-> res.text, tool_calls |-> Absent,
   tool_name |-> Some(res.name)]

Ok(v)  == [ok |-> TRUE, value |-> v]
Err(v) == [ok |-> FALSE, value |-> v]

\* Only the URL is checked before the request is sent.
execute_web_search_keyless(query, api_url, api_key, net) ==
  IF Trim(api_url) = <<>>
    THEN [result |-> Err(<<"Search API URL", "not configured", "in Options">>),
          outbound |-> FALSE]
  ELSE IF net = "ok"
    THEN [result |-> Ok(<<"results for">> \o query), outbound |-> TRUE]
    ELSE [result |-> Err(<<"Search request failed">>), outbound |-> TRUE]

\* execute_web_search: its result, and whether it sent the POST.
execute_web_search(query, api_url, api_key, net) ==
  IF Trim(api_url) = <<>>
    THEN [result |-> Err(<<"Search API URL", "not configured", "in Options">>),
          outbound |-> FALSE]
  ELSE IF Trim(api_key) = <<>>
    THEN [result |-> Err(<<"Search API key", "not configured", "in Options">>),
          outbound |-> FALSE]
  ELSE [result |->
          CASE net = "connect" -> Err(<<"Search request failed">>)
            [] net = "status"  -> Err(<<"Search API error">>)
            [] net = "read"    -> Err(<<"Failed to read search response">>)
            [] net = "ok"      -> Ok(<<"results for">> \o query),
        outbound |-> TRUE]

\* The (name, text) pair pushed on tool_results for one executed call.
ToolResult(name, r) ==
  [name |-> name,
   text |-> IF r.ok THEN r.value ELSE <<"Search failed:">> \o r.value]

\* Every web_search call is executed, whatever its query.
Executes_anyquery(tc) == tc.name = "web_search"

\* tool_name == "web_search" and the query is not empty.
Executes(tc) == tc.name = "web_search" /\ tc.query # <<>>

\* A list that is present counts as tool calls, also when it is empty.
HasToolCalls_present(m) == m.tool_calls # Absent

\* if let Some(ref tool_calls) = message.tool_calls, !tool_calls.is_empty()
HasToolCalls(m) == m.tool_calls # Absent /\ m.tool_calls[1] # <<>>

\* The status of the response is not looked at.
CompletionResult_anystatus(call, o) ==
  IF o.kind \in {"ok", "status"} THEN Ok(o.message)
  ELSE Err(<<"Failed", o.kind>>)

\* One completion call, from send() to the parsed ChatResponse: the `?`
\* and the status check turn each failure into the returned error.
CompletionResult(call, o) ==
  CASE o.kind = "connect" ->
         Err(IF call = 1
               THEN <<"Failed to connect to Ollama", "Make sure Ollama is running.">>
               ELSE <<"Failed to connect to Ollama">>)
    [] o.kind = "status" -> Err(<<"Ollama API error">>)
    [] o.kind = "read" ->
         Err(IF call = 1 THEN <<"Failed to read response">>
                         ELSE <<"Failed to read follow-up response">>)
    [] o.kind = "parse" ->
         Err(IF call = 1 THEN <<"Failed to parse response">>
                         ELSE <<"Failed to parse follow-up response">>)
    [] o.kind = "ok" -> Ok(o.message)

\* .message.map(|m| m.content).ok_or_else(|| "No response from model")
FinalAnswer(message) ==
  IF message = Absent THEN Err(<<"No response from model">>)
  ELSE Ok(message[1].content)

\* The tool messages are pushed before the assistant message.
FollowUpMessages_toolsfirst(msgs, m, results) ==
  msgs \o [i \in 1..Len(results) |-> ToolMsg(results[i])] \o <<AssistantMsg(m)>>

\* messages.push(assistant_msg), then one messages.push(tool_msg) per
\* entry of tool_results.
FollowUpMessages(msgs, m, results) ==
  msgs \o <<AssistantMsg(m)>> \o [i \in 1..Len(results) |-> ToolMsg(results[i])]

\* -------------------------------------------------- quick_answer actions
\* From the start of request_future to the first send().await.
qa_start(text, url, key, think) ==
  /\ qpc = "start"
  /\ qin' = [text |-> text, url |-> url, key |-> key, think |-> think]
  /\ IF Trim(text) = <<>>
       THEN /\ qret' = Some(Err(<<"Empty text">>))
            /\ qpc' = "returned"
            /\ UNCHANGED <<messages, sent>>
       ELSE /\ messages' = <<SystemMsg, UserMsg(text, think)>>
            /\ sent' = <<messages'>>
            /\ qpc' = "first_call"
            /\ UNCHANGED qret
  /\ last' = Step("qa_start", "quick_answer", 0, 0)
  /\ UNCHANGED <<first, second, toolResults, tcIndex, execs, searches>>

\* The first completion call resolves.
qa_first_response(o) ==
  /\ qpc = "first_call"
  /\ first' = Some(o)
  /\ LET r == CompletionResult(1, o) IN
       IF ~r.ok
         THEN qret' = Some(r) /\ qpc' = "returned"
       ELSE IF r.value # Absent /\ HasToolCalls(r.value[1])
         THEN qpc' = "tools" /\ UNCHANGED qret
         ELSE qret' = Some(FinalAnswer(r.value)) /\ qpc' = "returned"
  /\ tcIndex' = 1
  /\ last' = Step("qa_first_response", "quick_answer", 0, 0)
  /\ UNCHANGED <<qin, messages, sent, second, toolResults, execs, searches>>

\* One iteration of `for tool_call in tool_calls`.
qa_tool_call(net) ==
  /\ qpc = "tools"
  /\ LET calls == first[1].message[1].tool_calls[1] IN
       /\ tcIndex <= Len(calls)
       /\ LET tc == calls[tcIndex]
              x == execute_web_search(tc.query, UnwrapOrDefault(qin.url),
                                      UnwrapOrDefault(qin.key), net)
          IN IF Executes(tc)
               THEN /\ execs' = Append(execs, tc.query)
                    /\ searches' = searches + (IF x.outbound THEN 1 ELSE 0)
                    /\ toolResults' =
                         Append(toolResults, ToolResult(tc.name, x.result))
               ELSE UNCHANGED <<execs, searches, toolResults>>
  /\ tcIndex' = tcIndex + 1
  /\ last' = Step("qa_tool_call", "quick_answer", 0, 0)
  /\ UNCHANGED <<qpc, qin, messages, sent, first, second, qret>>

\* After the loop: extend the conversation and send the second request.
qa_second_request ==
  /\ qpc = "tools"
  /\ LET m == first[1].message[1] IN
       /\ tcIndex > Len(m.tool_calls[1])
       /\ messages' = FollowUpMessages(messages, m, toolResults)
  /\ sent' = Append(sent, messages')
  /\ qpc' = "second_call"
  /\ last' = Step("qa_second_request", "quick_answer", 0, 0)
  /\ UNCHANGED <<qin, first, second, toolResults, tcIndex, execs, searches,
                 qret>>

\* Tool calls of the second response start another tool round.
qa_second_response_rerun(o) ==
  /\ qpc = "second_call"
  /\ second' = Some(o)
  /\ LET r == CompletionResult(2, o) IN
       IF r.ok /\ r.value # Absent /\ HasToolCalls(r.value[1])
         THEN /\ first' = Some(o) /\ tcIndex' = 1 /\ qpc' = "tools"
              /\ UNCHANGED qret
         ELSE /\ qret' = Some(IF r.ok THEN FinalAnswer(r.value) ELSE r)
              /\ qpc' = "returned"
              /\ UNCHANGED <<first, tcIndex>>
  /\ last' = Step("qa_second_response", "quick_answer", 0, 0)
  /\ UNCHANGED <<qin, messages, sent, toolResults, execs, searches>>

\* The second completion call resolves.
qa_second_response(o) ==
  /\ qpc = "second_call"
  /\ second' = Some(o)
  /\ LET r == CompletionResult(2, o) IN
       qret' = Some(IF r.ok THEN FinalAnswer(r.value) ELSE r)
  /\ qpc' = "returned"
  /\ last' = Step("qa_second_response", "quick_answer", 0, 0)
  /\ UNCHANGED <<qin, messages, sent, first, toolResults, tcIndex, execs,
                 searches>>

\* ---------------------------------------------------- translate_text
TrTexts    == {<<>>, <<" ">>, <<"hello">>, <<"bonjour">>}
TargetArgs == {Absent, Some(<<>>), Some(<<" ">>), Some(<<"en">>),
               Some(<<" ", "en", " ">>), Some(<<"fr">>), Some(<<"fr", " ">>)}
Detected   == {<<"en">>, <<"fr">>, <<"auto">>}
TrFailures == {"connect", "status", "read", "format", "parse"}
TrOutcomes ==
  [kind : TrFailures, detected : {<<"auto">>}] \cup [kind : {"ok"}, detected : Detected]

\* translate_with_target: the TranslationResult for the trimmed target, or
\* the error of the step that failed.
translate_with_target(text, target_language, net) ==
  CASE net.kind = "connect" -> Err(<<"Request failed">>)
    [] net.kind = "status"  -> Err(<<"HTTP error">>)
    [] net.kind = "read"    -> Err(<<"Failed to read response">>)
    [] net.kind = "format"  -> Err(<<"Invalid response format">>)
    [] net.kind = "parse"   -> Err(<<"Could not parse translation from response">>)
    [] net.kind = "ok" ->
         Ok([text |-> Trim(target_language) \o <<":">> \o text,
             detected_language |-> net.detected])

\* Only a missing target takes the English branch.
IsEnglishBranch_emptyonly(trimmed_language) == trimmed_language = <<>>

\* trimmed_language.is_empty() || trimmed_language == "en"
IsEnglishBranch(trimmed_language) ==
  trimmed_language = <<>> \/ trimmed_language = <<"en">>

trimmed_language == Trim(UnwrapOrDefault(tin.target))

\* The second call is made when the source was detected as English.
FallsBackToEnglish_whenEnglish(result) == result.detected_language = <<"en">>

\* After the call to the requested target: unless detected_language is
\* "en" (then its result is returned), the text is translated to "en".
FallsBackToEnglish(result) == result.detected_language # <<"en">>

\* From the start of request_future to the first translate_with_target.
tr_start(text, target) ==
  /\ tpc = "start"
  /\ tin' = [text |-> text, target |-> target]
  /\ IF Trim(text) = <<>>
       THEN /\ tret' = Some(Err(<<"Empty text">>))
            /\ tpc' = "returned"
            /\ UNCHANGED tcalls
       ELSE /\ LET trimmed == Trim(UnwrapOrDefault(target)) IN
                 tcalls' = <<IF IsEnglishBranch(trimmed) THEN <<"en">> ELSE trimmed>>
            /\ tpc' = "first_call"
            /\ UNCHANGED tret
  /\ last' = Step("tr_start", "translate_text", 0, 0)
  /\ UNCHANGED tres

\* The first translate_with_target resolves.
tr_first_result(net) ==
  /\ tpc = "first_call"
  /\ LET r == translate_with_target(tin.text, tcalls[1], net) IN
       /\ tres' = Append(tres, r)
       /\ IF ~r.ok
            THEN tret' = Some(r) /\ tpc' = "returned" /\ UNCHANGED tcalls
          ELSE IF IsEnglishBranch(trimmed_language)
            THEN /\ tret' = Some(IF r.value.detected_language = <<"en">>
                                   THEN Err(<<"Source is English">>)
                                   ELSE r)
                 /\ tpc' = "returned"
                 /\ UNCHANGED tcalls
          ELSE IF ~FallsBackToEnglish(r.value)
            THEN tret' = Some(r) /\ tpc' = "returned" /\ UNCHANGED tcalls
            ELSE /\ tcalls' = Append(tcalls, <<"en">>)
                 /\ tpc' = "second_call"
                 /\ UNCHANGED tret
  /\ last' = Step("tr_first_result", "translate_text", 0, 0)
  /\ UNCHANGED tin

\* The second translate_with_target (to "en") resolves.
tr_second_result(net) ==
  /\ tpc = "second_call"
  /\ LET r == translate_with_target(tin.text, tcalls[2], net) IN
       /\ tres' = Append(tres, r)
       /\ tret' = Some(r)
  /\ tpc' = "returned"
  /\ last' = Step("tr_second_result", "translate_text", 0, 0)
  /\ UNCHANGED <<tin, tcalls>>

\* Abortable resolves to Err(Aborted) before request_future completed.
tr_abort ==
  /\ tpc \in {"start", "first_call", "second_call"}
  /\ tret' = Some(Err(<<"Cancelled">>))
  /\ tpc' = "returned"
  /\ last' = Step("tr_abort", "translate_text", 0, 0)
  /\ UNCHANGED <<tin, tcalls, tres>>

\* ------------------------------------------------------------------ Init
InitReg ==
  /\ counter = 0
  /\ slots = [s \in Slots |-> None]
  /\ aborts = [r \in Req |-> 0]
  /\ pc = [r \in Req |-> "idle"]
  /\ kind = [r \in Req |-> "quick_answer"]
  /\ id = [r \in Req |-> 0]
  /\ outcome = [r \in Req |-> "none"]
  /\ ret = [r \in Req |-> "none"]
  /\ finishCalls = [r \in Req |-> 0]
  /\ installed = [s \in Slots |-> <<>>]
  /\ cleared = {}
  /\ last = Step("init", "quick_answer", 0, 0)
  /\ cancelReturns = [w \in {"inflight", "empty"} |-> {}]

InitStream ==
  /\ spc = "connect"
  /\ buffer = <<>>
  /\ events = <<>>
  /\ sret = "none"
  /\ nbytes = 0
  /\ received = <<>>
  /\ status = "none"

InitQA ==
  /\ qpc = "start"
  /\ qin = [text |-> <<>>, url |-> Absent, key |-> Absent, think |-> FALSE]
  /\ messages = <<>>
  /\ sent = <<>>
  /\ first = Absent
  /\ second = Absent
  /\ toolResults = <<>>
  /\ tcIndex = 1
  /\ execs = <<>>
  /\ searches = 0
  /\ qret = Absent

InitTr ==
  /\ tpc = "start"
  /\ tin = [text |-> <<>>, target |-> Absent]
  /\ tcalls = <<>>
  /\ tres = <<>>
  /\ tret = Absent

Init == InitReg /\ InitStream /\ InitQA /\ InitTr

Next ==
  \/ \E r \in Req, cmd \in Commands :
       start_request_next_id(r, cmd) /\ UNCHANGED <<streamVars, qaVars, trVars>>
  \/ \E r \in Req : start_request(r) /\ UNCHANGED <<streamVars, qaVars, trVars>>
  \/ \E r \in Req : AbortableAwait(r) /\ UNCHANGED <<streamVars, qaVars, trVars>>
  \/ \E r \in Req : finish_request(r) /\ UNCHANGED <<streamVars, qaVars, trVars>>
  \/ \E cmd \in Commands : cancel_request(cmd) /\ UNCHANGED <<streamVars, qaVars, trVars>>

Spec == Init /\ [][Next]_vars

\* The registry seen from one slot: the invocations, and the cancel
\* commands, of translate_text.
NextSlot ==
  \/ \E r \in Req :
       start_request_next_id(r, "translate_text") /\ UNCHANGED <<streamVars, qaVars, trVars>>
  \/ \E r \in Req : start_request(r) /\ UNCHANGED <<streamVars, qaVars, trVars>>
  \/ \E r \in Req : AbortableAwait(r) /\ UNCHANGED <<streamVars, qaVars, trVars>>
  \/ \E r \in Req : finish_request(r) /\ UNCHANGED <<streamVars, qaVars, trVars>>
  \/ cancel_request("translate_text") /\ UNCHANGED <<streamVars, qaVars, trVars>>

\* Every command that was invoked runs on: it gets the slot lock, its
\* Abortable future completes and its match arm runs.  Nothing forces a
\* new invocation or a cancel command.
SpecLive ==
  /\ Init /\ [][NextSlot]_vars
  /\ \A r \in Req :
       /\ WF_vars(start_request(r) /\ UNCHANGED <<streamVars, qaVars, trVars>>)
       /\ WF_vars(AbortableAwait(r) /\ UNCHANGED <<streamVars, qaVars, trVars>>)
       /\ WF_vars(finish_request(r) /\ UNCHANGED <<streamVars, qaVars, trVars>>)

NextStream ==
  \/ send_err /\ UNCHANGED <<regVars, qaVars, trVars>>
  \/ \E st \in Statuses : send_ok(st) /\ UNCHANGED <<regVars, qaVars, trVars>>
  \/ \E bytes \in Chunks(MaxBytes - nbytes) : stream_chunk(bytes) /\ UNCHANGED <<regVars, qaVars, trVars>>
  \/ stream_err /\ UNCHANGED <<regVars, qaVars, trVars>>
  \/ stream_end /\ UNCHANGED <<regVars, qaVars, trVars>>

SpecStream == Init /\ [][NextStream]_vars

\* One run of the quick_answer request future.
NextQA ==
  \/ \E text \in QTexts, url \in UrlArgs, key \in KeyArgs, think \in BOOLEAN :
       qa_start(text, url, key, think) /\ UNCHANGED <<regVars, streamVars, trVars>>
  \/ \E o \in CallOutcomes(FirstMessages) :
       qa_first_response(o) /\ UNCHANGED <<regVars, streamVars, trVars>>
  \/ \E net \in SearchOutcomes :
       qa_tool_call(net) /\ UNCHANGED <<regVars, streamVars, trVars>>
  \/ qa_second_request /\ UNCHANGED <<regVars, streamVars, trVars>>
  \/ \E o \in CallOutcomes(SecondMessages) :
       qa_second_response(o) /\ UNCHANGED <<regVars, streamVars, trVars>>

SpecQA == Init /\ [][NextQA]_vars

NextTranslate ==
  \/ \E text \in TrTexts, target \in TargetArgs :
       tr_start(text, target) /\ UNCHANGED <<regVars, streamVars, qaVars>>
  \/ \E net \in TrOutcomes :
       tr_first_result(net) /\ UNCHANGED <<regVars, streamVars, qaVars>>
  \/ \E net \in TrOutcomes :
       tr_second_result(net) /\ UNCHANGED <<regVars, streamVars, qaVars>>
  \/ tr_abort /\ UNCHANGED <<regVars, streamVars, qaVars>>

SpecTranslate == Init /\ [][NextTranslate]_vars

\* A cancel command that also ends the streaming chat.
CancelDuringChat_interrupt(cmd) ==
  /\ cancel_request(cmd)
  /\ spc' = "returned"
  /\ sret' = "Cancelled"
  /\ UNCHANGED <<buffer, events, nbytes, received, status, qaVars, trVars>>

\* cancel_quick_answer / cancel_translate_text while chat_stream runs: the
\* commands reach the two registry slots only, and chat_stream holds no
\* AbortRegistration.
CancelDuringChat(cmd) ==
  cancel_request(cmd) /\ UNCHANGED <<streamVars, qaVars, trVars>>

\* chat_stream running beside one quick_answer / translate_text task and
\* the cancel commands.
NextChat ==
  \/ send_err /\ UNCHANGED <<regVars, qaVars, trVars>>
  \/ \E st \in Statuses : send_ok(st) /\ UNCHANGED <<regVars, qaVars, trVars>>
  \/ \E bytes \in Chunks(MaxChatBytes - nbytes) :
       stream_chunk(bytes) /\ UNCHANGED <<regVars, qaVars, trVars>>
  \/ stream_err /\ UNCHANGED <<regVars, qaVars, trVars>>
  \/ stream_end /\ UNCHANGED <<regVars, qaVars, trVars>>
  \/ \E cmd \in Commands :
       start_request_next_id(1, cmd) /\ UNCHANGED <<streamVars, qaVars, trVars>>
  \/ start_request(1) /\ UNCHANGED <<streamVars, qaVars, trVars>>
  \/ AbortableAwait(1) /\ UNCHANGED <<streamVars, qaVars, trVars>>
  \/ finish_request(1) /\ UNCHANGED <<streamVars, qaVars, trVars>>
  \/ \E cmd \in Commands : CancelDuringChat(cmd)

SpecChat == Init /\ [][NextChat]_vars

\* ------------------------------------------- a command from start to end
\* Request 2 with its request_future spelled out, started while request 1
\* (its future reduced to its exit paths) may be in flight.
\* The label of the value request_future resolved to.
InnerOutcome(res) ==
  IF res.ok THEN "Ok"
  ELSE IF res.value = <<"Empty text">> THEN "EmptyText" ELSE "Err"

\* First responses that end quick_answer without a tool round.
DirectOutcomes == CallOutcomes({m \in FirstMessages : ~HasToolCalls(m)})

\* Abortable polls request_future of quick_answer: the abort flag is
\* clear, the future advances, and when it resolves so does Abortable.
PollQuickAnswer ==
  /\ pc[2] = "await" /\ kind[2] = "quick_answer" /\ aborts[2] = 0
  /\ \/ \E text \in QTexts : qa_start(text, Absent, Absent, FALSE)
     \/ \E o \in DirectOutcomes : qa_first_response(o)
  /\ IF qpc' = "returned"
       THEN /\ outcome' = [outcome EXCEPT ![2] = InnerOutcome(qret'[1])]
            /\ pc' = [pc EXCEPT ![2] = "finish"]
       ELSE UNCHANGED <<outcome, pc>>
  /\ UNCHANGED <<counter, slots, aborts, kind, id, ret, finishCalls,
                 installed, cleared, cancelReturns, streamVars, trVars>>

\* Abortable polls request_future of translate_text.
PollTranslate ==
  /\ pc[2] = "await" /\ kind[2] = "translate_text" /\ aborts[2] = 0
  /\ \/ \E text \in TrTexts, target \in TargetArgs : tr_start(text, target)
     \/ \E net \in TrOutcomes : tr_first_result(net)
     \/ \E net \in TrOutcomes : tr_second_result(net)
  /\ IF tpc' = "returned"
       THEN /\ outcome' = [outcome EXCEPT ![2] = InnerOutcome(tret'[1])]
            /\ pc' = [pc EXCEPT ![2] = "finish"]
       ELSE UNCHANGED <<outcome, pc>>
  /\ UNCHANGED <<counter, slots, aborts, kind, id, ret, finishCalls,
                 installed, cleared, cancelReturns, streamVars, qaVars>>

\* Abortable finds the abort flag set: request_future is dropped.
PollAborted ==
  /\ aborts[2] > 0
  /\ AbortableAwait(2)
  /\ UNCHANGED <<streamVars, qaVars, trVars>>

NextCommand ==
  \/ \E r \in {1, 2}, cmd \in Commands :
       start_request_next_id(r, cmd) /\ UNCHANGED <<streamVars, qaVars, trVars>>
  \/ \E r \in {1, 2} : start_request(r) /\ UNCHANGED <<streamVars, qaVars, trVars>>
  \/ AbortableAwait(1) /\ UNCHANGED <<streamVars, qaVars, trVars>>
  \/ PollQuickAnswer
  \/ PollTranslate
  \/ PollAborted
  \/ \E r \in {1, 2} : finish_request(r) /\ UNCHANGED <<streamVars, qaVars, trVars>>
  \/ \E cmd \in Commands : cancel_request(cmd) /\ UNCHANGED <<streamVars, qaVars, trVars>>

SpecCommand == Init /\ [][NextCommand]_vars

\* ------------------------------------------------------ claim vocabulary
\* The command whose requests belong in a slot (the registry's wiring as
\* the commands use it, stated independently of SlotOf).
CommandOfSlot(s) == IF s = "quick_answer" THEN "quick_answer" ELSE "translate_text"
OtherSlot(s) == IF s = "quick_answer" THEN "translation" ELSE "quick_answer"
SlotOfCommand(c) == IF c = "quick_answer" THEN "quick_answer" ELSE "translation"

Started(r)   == pc[r] \in {"await", "finish", "done"}
Finished(r)  == finishCalls[r] > 0
Signalled(r) == aborts[r] > 0
StartedOn(s) == {r \in Req : Started(r) /\ kind[r] = CommandOfSlot(s)}
Live(s)      == {r \in StartedOn(s) : ~Finished(r) /\ ~Signalled(r)}
Owner(g)     == CHOOSE r \in Req : id[r] = g
Earlier(s)   == {installed[s][i] : i \in 1..(Len(installed[s]) - 1)}
MostRecent(s) == installed[s][Len(installed[s])]

\* C1: single-flight.  On each slot at most one started request is both
\* unfinished and unsignalled, and it is the slot's occupant; every other
\* started request of the slot has been signalled or has called finish.
C1_SingleFlight ==
  \A s \in Slots :
    /\ Cardinality(Live(s)) <= 1
    /\ \A r \in Live(s) : slots[s] = RequestSlot(id[r], r)
    /\ \A r \in StartedOn(s) :
         slots[s].handle # r => (Signalled(r) \/ Finished(r))

\* C1 witness: a superseded request (signalled, still unfinished) next to
\* the unsignalled occupant that replaced it.
C1_Witness ==
  \E s \in Slots : \E r, q \in StartedOn(s) :
    /\ r # q
    /\ Signalled(r) /\ ~Finished(r)
    /\ Live(s) = {q}

\* C2 (as stated): every generation installed before the most recent start
\* of its slot never had a successful finish and had its abort handle
\* signalled exactly once.
C2_Original ==
  \A s \in Slots : \A g \in Earlier(s) :
    g \notin cleared /\ aborts[Owner(g)] = 1

C2_State ==
  /\ \A r \in Req : aborts[r] <= 1
  /\ \A s \in Slots : \A g \in Earlier(s) :
       aborts[Owner(g)] = IF g \in cleared THEN 0 ELSE 1
  /\ \A s \in Slots :
       slots[s] # None => slots[s].id = MostRecent(s)

C2_Step ==
  last'.op = "finish" =>
    LET s == SlotOfCommand(last'.cmd) IN
      /\ slots'[s] # slots[s] => last'.gen = MostRecent(s)
      /\ last'.gen # MostRecent(s) => slots' = slots

\* C2 (amended): finish empties the slot only for the generation installed
\* by the most recent start of the slot, finish for any other generation
\* is a no-op, no abort handle is signalled twice, and an earlier
\* generation is signalled exactly once unless its own finish had already
\* emptied the slot, in which case it is never signalled.
C2_Amended == []C2_State /\ [][C2_Step]_vars

\* C2 witness: a superseded generation, signalled once, whose finish ran
\* and was a no-op while the most recent generation stays installed.
C2_Witness ==
  \E s \in Slots : \E g \in Earlier(s) :
    /\ Finished(Owner(g)) /\ g \notin cleared /\ aborts[Owner(g)] = 1
    /\ slots[s] # None /\ slots[s].id = MostRecent(s)

\* C3 (as stated): the generations installed in a slot are strictly
\* increasing in installation order, concurrent starts included.
C3_Original ==
  \A s \in Slots : \A i, j \in 1..Len(installed[s]) :
    i < j => installed[s][i] < installed[s][j]

C3_Distinct ==
  /\ \A s \in Slots : \A i, j \in 1..Len(installed[s]) :
       i # j => installed[s][i] # installed[s][j]
  /\ \A i \in 1..Len(installed["quick_answer"]) :
       \A j \in 1..Len(installed["translation"]) :
         installed["quick_answer"][i] # installed["translation"][j]

C3_Step ==
  (last'.op = "start" /\ last'.gen = counter) =>
    LET s == SlotOfCommand(last'.cmd) IN
      /\ installed'[s] = Append(installed[s], last'.gen)
      /\ \A i \in 1..Len(installed[s]) : installed[s][i] < last'.gen

\* C3 (amended): a generation is never installed twice, in any slot, and a
\* start that installs the generation allocated last (no other start
\* called next_id in between) installs a generation greater than every
\* generation installed in the slot before; concurrent starts may install
\* their generations in decreasing order.
C3_Amended == []C3_Distinct /\ [][C3_Step]_vars

\* C3 witness: two generations installed one after the other in one slot.
C3_Witness ==
  \E s \in Slots :
    /\ Len(installed[s]) = 2
    /\ installed[s][1] < installed[s][2]
    /\ last.op = "start" /\ last.gen = counter

C4_Step ==
  last'.op = "finish" =>
    LET s == SlotOfCommand(last'.cmd)
        g == last'.gen
    IN /\ g = id[last'.req]
       /\ (slots[s] # None /\ slots[s].id = g) => slots'[s] = None
       /\ ~(slots[s] # None /\ slots[s].id = g) => slots'[s] = slots[s]
       /\ slots'[OtherSlot(s)] = slots[OtherSlot(s)]
       /\ aborts' = aborts

\* C4: finish(slot, g) empties the slot exactly when its occupant has
\* generation g; on an empty slot or another generation it leaves the
\* slot and every abort handle as they were.
C4_StaleFinishNoOp == [][C4_Step]_vars

\* C4 witness: a finish for a superseded generation has just run and the
\* newer occupant is still installed and unsignalled.
C4_Witness ==
  /\ last.op = "finish"
  /\ LET occ == slots[SlotOfCommand(last.cmd)] IN
       occ # None /\ occ.id # last.gen /\ aborts[occ.handle] = 0

C5_Step ==
  last'.op = "cancel" =>
    LET s == SlotOfCommand(last'.cmd)
        occ == slots[s]
    IN /\ slots'[s] = None
       /\ counter' = counter
       /\ occ # None =>
            /\ last'.gen = occ.id
            /\ aborts' = [aborts EXCEPT ![occ.handle] = aborts[occ.handle] + 1]
       /\ occ = None =>
            /\ last'.gen = 0
            /\ slots' = slots
            /\ aborts' = aborts

\* C5: cancel on an occupied slot signals the occupant, empties the slot
\* and returns the occupant's generation; cancel on an empty slot returns
\* nothing and changes neither the slot, the handles nor the counter, so
\* a repeated cancel adds nothing to the first.
C5_Cancel == [][C5_Step]_vars

\* C5 witness: a cancel that found the slot empty, after an earlier cancel
\* had cancelled a request.
C5_Witness ==
  /\ last.op = "cancel" /\ last.gen = 0
  /\ \E r \in Req : kind[r] = last.cmd /\ Started(r) /\ Signalled(r)
  /\ cancelReturns["inflight"] # {}

\* C6 (as stated): a request that was superseded or cancelled (its abort
\* handle was signalled) returns "Cancelled".
C6_Original ==
  \A r \in Req : (pc[r] = "done" /\ Signalled(r)) => ret[r] = "Cancelled"

C6_State ==
  \A r \in Req :
    /\ outcome[r] = "Aborted" => Signalled(r)
    /\ pc[r] = "done" => (ret[r] = "Cancelled" <=> outcome[r] = "Aborted")

C6_Step ==
  \A r \in Req :
    (pc[r] = "await" /\ Signalled(r) /\ pc'[r] # "await") =>
       outcome'[r] = "Aborted"

\* C6 (amended): a request whose abort handle is signalled while its
\* future is still pending returns "Cancelled", never a result or an
\* error, and "Cancelled" is returned only by a signalled request; a
\* request whose future had already completed when it was superseded or
\* cancelled returns its own result or error.
C6_Amended == []C6_State /\ [][C6_Step]_vars

\* C6 witness: a request has returned "Cancelled".
C6_Witness ==
  \E r \in Req : pc[r] = "done" /\ ret[r] = "Cancelled" /\ Signalled(r)

C7_State ==
  \A r \in Req :
    /\ finishCalls[r] <= 1
    /\ pc[r] = "done" => finishCalls[r] = 1
    /\ pc[r] # "done" => finishCalls[r] = 0

\* C7: every started request calls finish exactly once, with its own
\* generation, on the success, the failure, the "Empty text" and the
\* cancellation path.
C7_FinishOnce ==
  /\ []C7_State
  /\ [][last'.op = "finish" => last'.gen = id[last'.req]]_vars

\* C7 witness: one request left through the cancellation path and another
\* through the "Empty text" path, each with one finish call.
C7_Witness ==
  \E r, q \in Req :
    /\ pc[r] = "done" /\ ret[r] = "Cancelled" /\ finishCalls[r] = 1
    /\ pc[q] = "done" /\ ret[q] = "Empty text" /\ finishCalls[q] = 1

\* C8 (as stated): what a cancel command returns when a request was in
\* flight differs from what it returns when the slot was empty.
C8_Original == cancelReturns["inflight"] \cap cancelReturns["empty"] = {}

C8_Step ==
  last'.op = "cancel" =>
    (last'.gen # 0 <=> slots[SlotOfCommand(last'.cmd)] # None)

\* C8 (amended): the cancel commands return Ok(()) whether or not a
\* request was in flight; only cancel_request inside the registry tells
\* the two cases apart (Some(generation) or None), and the commands log
\* that value without returning it.
C8_Amended ==
  /\ [](\A w \in {"inflight", "empty"} : cancelReturns[w] \subseteq {"Ok(())"})
  /\ [][C8_Step]_vars

\* C8 witness: a cancel command has run in both situations.
C8_Witness == cancelReturns["inflight"] # {} /\ cancelReturns["empty"] # {}

C9_Step ==
  last'.op \in {"start", "finish", "cancel"} =>
    LET o == OtherSlot(SlotOfCommand(last'.cmd)) IN
      /\ slots'[o] = slots[o]
      /\ installed'[o] = installed[o]
      /\ \A r \in Req :
           (pc[r] # "idle" /\ kind[r] = CommandOfSlot(o)) => aborts'[r] = aborts[r]

\* C9: start, finish and cancel on one slot never change the other slot's
\* occupant and never signal an abort handle of the other slot's requests.
C9_SlotsIndependent == [][C9_Step]_vars

\* C9 witness: a request of one slot was cancelled while the other slot
\* kept its unsignalled occupant.
C9_Witness ==
  /\ last.op = "cancel" /\ last.gen # 0
  /\ LET occ == slots[OtherSlot(SlotOfCommand(last.cmd))] IN
       occ # None /\ aborts[occ.handle] = 0

DoneCount(evs) == Cardinality({i \in 1..Len(evs) : evs[i] = DoneEvent})

\* C10 (as stated): every run that has returned emitted exactly one done
\* event, as its last event, also when it ended with a connection or a
\* chunk-read error.
C10_Original ==
  spc = "returned" =>
    /\ DoneCount(events) = 1
    /\ events[Len(events)] = DoneEvent

C10_State ==
  /\ (spc = "returned" /\ sret = "Ok(())") =>
       /\ DoneCount(events) = 1
       /\ events[Len(events)] = DoneEvent
  /\ (spc = "returned" /\ sret # "Ok(())") => DoneCount(events) = 0
  /\ spc # "returned" => DoneCount(events) = 0

\* C10 (amended): every run that returns Ok(()) emitted exactly one done
\* event, as its last event, whether the stream contained a done line or
\* ended without one; a run that ends with a connection or a chunk-read
\* error returns the error and emits no done event; nothing is emitted
\* after the run has returned.
C10_Amended ==
  /\ []C10_State
  /\ [][spc = "returned" => events' = events]_vars

\* C10 witness: a stream that delivered a token and ended without a done
\* line; the run returned Ok(()) after the end-of-stream done event.
C10_Witness ==
  /\ spc = "returned" /\ sret = "Ok(())" /\ last.op = "stream_end"
  /\ Len(events) >= 2
  /\ events[1].type = "ollama://token"

\* --------------------------------------------------- decoder vocabulary
\* The whole byte stream decoded as one chunk followed by the end of the
\* stream.
OneChunk(bytes) ==
  LET d == DrainLines(bytes, <<>>) IN
    IF d.returned THEN d.events ELSE EndOfStream(d.events)

\* C11: chunk-boundary invariance.  However the bytes were split into
\* chunks (mid-line splits and empty chunks included), a run that returned
\* Ok(()) emitted the events the same bytes produce as a single chunk, and
\* a run still reading has emitted what the bytes so far produce as a
\* single chunk and buffers the same unfinished line.
C11_ChunkInvariance ==
  /\ (spc = "returned" /\ sret = "Ok(())") => events = OneChunk(received)
  /\ spc = "reading" =>
       /\ events = DrainLines(received, <<>>).events
       /\ buffer = DrainLines(received, <<>>).buffer

\* C11 witness: a chunk boundary in the middle of a line: a token line was
\* decoded and the chunk ended with the first bytes of the next line, which
\* stay buffered.
C11_Witness ==
  /\ spc = "reading"
  /\ last.op = "stream_chunk"
  /\ buffer # <<>>
  /\ Len(events) >= 1
  /\ events = DrainLines(received, <<>>).events

\* Positions of the newline bytes, and the line that ends at one of them
\* (newline included).
Nls(bytes) == {i \in 1..Len(bytes) : bytes[i] = "nl"}
MaxOf(S) == CHOOSE m \in S : \A x \in S : x <= m
MinOf(S) == CHOOSE m \in S : \A x \in S : m <= x
LineStart(bytes, e) == MaxOf({0} \cup {j \in Nls(bytes) : j < e}) + 1
LineAt(bytes, e) == SubSeq(bytes, LineStart(bytes, e), e)
IsDoneLine(line) == Len(line) > 1 /\ ParseLine(line).ok /\ ParseLine(line).done
IsSkipped(line) == Len(line) <= 1 \/ ~ParseLine(line).ok
DoneEnds(bytes) == {e \in Nls(bytes) : IsDoneLine(LineAt(bytes, e))}
\* End of the first done line, 0 when there is none.
FirstDone(bytes) == IF DoneEnds(bytes) = {} THEN 0 ELSE MinOf(DoneEnds(bytes))

C12_State ==
  /\ \A i \in 1..(Len(events) - 1) : events[i] # DoneEvent
  /\ spc = "reading" => FirstDone(received) = 0
  /\ (spc = "returned" /\ last.op = "stream_chunk") =>
       LET e == FirstDone(received)
           resp == ParseLine(LineAt(received, e))
           n == Len(events)
       IN /\ e # 0
          /\ sret = "Ok(())"
          /\ events[n] = DoneEvent
          /\ resp.content # <<>> =>
               (n >= 2 /\ events[n - 1] = TokenEvent(resp.content))
          /\ buffer = SubSeq(received, e + 1, Len(received))

\* C12: a line whose done flag is true ends the run.  Its token event, if
\* it carries content, comes right before the done event; no event follows
\* the done event; the bytes behind the done line stay in the buffer
\* undecoded; and once the run has returned no further chunk is read.
C12_DoneStops ==
  /\ []C12_State
  /\ [][spc = "returned" =>
          (received' = received /\ nbytes' = nbytes /\ buffer' = buffer
             /\ events' = events /\ spc' = "returned")]_vars

\* C12 witness: a done line with content returned the run while a complete
\* line that arrived behind it in the same chunk is still in the buffer.
C12_Witness ==
  /\ spc = "returned" /\ last.op = "stream_chunk"
  /\ Len(events) = 2
  /\ events[1].type = "ollama://token"
  /\ \E e \in Nls(buffer) : ParseLine(LineAt(buffer, e)).ok

Tokens(evs) == SelectSeq(evs, LAMBDA ev : ev.type = "ollama://token")

\* The token events of the lines that end at or before position e.
RECURSIVE TokensUpTo(_, _)
TokensUpTo(bytes, e) ==
  IF e = 0 THEN <<>>
  ELSE LET line == LineAt(bytes, e)
           before == TokensUpTo(bytes, LineStart(bytes, e) - 1)
       IN IF ~IsSkipped(line) /\ ParseLine(line).content # <<>>
            THEN Append(before, TokenEvent(ParseLine(line).content))
            ELSE before

ExpectedTokens(bytes) ==
  TokensUpTo(bytes, IF FirstDone(bytes) # 0 THEN FirstDone(bytes)
                    ELSE MaxOf({0} \cup Nls(bytes)))

\* C13: blank lines and lines that fail to parse produce no event and do
\* not stop the decoder: the token events emitted are exactly those of the
\* valid lines with content, in order, up to the first done line, and a
\* run returns from a chunk only on a done line.
C13_MalformedSkipped ==
  /\ Tokens(events) = ExpectedTokens(received)
  /\ (spc = "returned" /\ last.op = "stream_chunk") => FirstDone(received) # 0

\* C13 witness: the stream began with a line that fails to parse and with
\* a blank line, and the token of the valid line behind them was emitted.
C13_Witness ==
  /\ Len(events) >= 1 /\ events[1].type = "ollama://token"
  /\ \E e1, e2 \in Nls(received) :
       /\ e1 = MinOf(Nls(received)) /\ e1 > 1
       /\ ~ParseLine(LineAt(received, e1)).ok
       /\ e2 = e1 + 1

C14_Returns ==
  sret \in {"none", "Ok(())", "Err(Failed to connect to Ollama)",
            "Err(Stream error)"}

C14_Step ==
  /\ last'.op \in {"next_id", "start", "await", "finish", "cancel"} =>
       UNCHANGED <<spc, buffer, events, sret, nbytes, received, status>>
  /\ last'.cmd = "chat_stream" =>
       UNCHANGED <<counter, slots, aborts, installed>>

FirstOk      == first # Absent /\ first[1].kind = "ok"
FirstMessage == first[1].message[1]
NoToolCalls(m) == m.tool_calls = Absent \/ m.tool_calls = Some(<<>>)
SecondOk     == second # Absent /\ second[1].kind = "ok"
Contains(str, piece) == \E i \in 1..Len(str) : str[i] = piece
IsPrefix(a, b) == Len(a) <= Len(b) /\ SubSeq(b, 1, Len(a)) = a
\* The queries of the web_search calls with a query, in call order.
RECURSIVE SearchQueries(_)
SearchQueries(calls) ==
  IF calls = <<>> THEN <<>>
  ELSE LET tc == Head(calls) IN
         (IF tc.name = "web_search" /\ tc.query # <<>> THEN <<tc.query>> ELSE <<>>)
           \o SearchQueries(Tail(calls))
SearchBlank ==
  qin.url \in {Absent, Some(<<" ">>)} \/ qin.key \in {Absent, Some(<<" ">>)}

\* C15: when the first response's message carries no tool calls (no list,
\* or an empty one), quick_answer returns that message's text, the tool
\* executor is never invoked and no second completion call is made.
C15_NoToolCalls ==
  (FirstOk /\ first[1].message # Absent /\ NoToolCalls(FirstMessage)) =>
     /\ qpc = "returned"
     /\ qret = Some(Ok(FirstMessage.content))
     /\ execs = <<>> /\ searches = 0 /\ toolResults = <<>>
     /\ Len(sent) = 1 /\ second = Absent

\* C15 witness: the first response carried an empty tool-call list and its
\* text was returned.
C15_Witness ==
  /\ FirstOk /\ first[1].message # Absent
  /\ FirstMessage.tool_calls = Some(<<>>)
  /\ qret = Some(Ok(<<"Paris.">>))

C16_State ==
  /\ Len(sent) >= 1 =>
       /\ Len(sent[1]) = 2
       /\ sent[1][1].role = "system" /\ sent[1][2].role = "user"
  /\ Len(sent) = 2 =>
       LET m == FirstMessage
           q == SearchQueries(m.tool_calls[1])
       IN /\ IsPrefix(sent[1], sent[2])
          /\ sent[2][3].role = "assistant"
          /\ sent[2][3].content = m.content
          /\ sent[2][3].tool_calls = m.tool_calls
          /\ Len(sent[2]) = 3 + Len(q)
          /\ \A i \in 1..Len(q) :
               LET t == sent[2][3 + i] IN
                 /\ t.role = "tool" /\ t.tool_name = Some("web_search")
                 /\ t.content = toolResults[i].text
                 /\ t.content[1] = "results for" =>
                      t.content = <<"results for">> \o q[i]
          /\ Len(q) = 1 =>
               [i \in 1..4 |-> sent[2][i].role] =
                 <<"system", "user", "assistant", "tool">>
  /\ (qpc = "returned" /\ SecondOk /\ second[1].message # Absent) =>
       qret = Some(Ok(second[1].message[1].content))

\* C16: the conversation only grows.  The list sent on the second call is
\* the first call's list (system, user), then the assistant message with
\* the first response's content and tool calls, then one tool message per
\* executed call in call order; with one executed web_search call it is
\* system, user, assistant, tool; the result is the second call's text.
C16_AppendOnly ==
  /\ []C16_State
  /\ [][IsPrefix(messages, messages')]_vars

\* C16 witness: one web_search call was executed, four messages were sent
\* on the second call and the second call's text was returned.
C16_Witness ==
  /\ Len(sent) = 2 /\ Len(sent[2]) = 4
  /\ Len(execs) = 1 /\ searches = 1
  /\ toolResults[1].text[1] = "results for"
  /\ qpc = "returned" /\ qret = Some(Ok(<<"Paris.">>))

\* C17: a failing tool invocation does not end the run.  With the search
\* URL or key blank after trimming the executor fails without an outbound
\* call and its failure becomes a tool message whose text contains "not
\* configured"; every invocation, failed or not, yields a tool message;
\* the second call is made and its response is the result.
C17_ToolFailureAbsorbed ==
  /\ SearchBlank =>
       /\ searches = 0
       /\ \A i \in 1..Len(toolResults) :
            /\ toolResults[i].text[1] = "Search failed:"
            /\ Contains(toolResults[i].text, "not configured")
  /\ Len(toolResults) = Len(execs)
  /\ (qpc \in {"second_call", "returned"} /\ execs # <<>>) =>
       /\ Len(sent) = 2
       /\ \A i \in 1..Len(toolResults) :
            sent[2][3 + i].content = toolResults[i].text
  /\ (qpc = "returned" /\ execs # <<>>) =>
       /\ second # Absent
       /\ (SecondOk /\ second[1].message # Absent) =>
            qret = Some(Ok(second[1].message[1].content))

\* C17 witness: the search key was blank, the executor was invoked and
\* failed, and the second call's text was returned.
C17_Witness ==
  /\ qin.url = Some(<<"https://search">>) /\ qin.key = Some(<<" ">>)
  /\ Len(execs) >= 1
  /\ qpc = "returned" /\ qret = Some(Ok(<<"Paris.">>))

FailureText(k) ==
  CASE k = "connect" -> {"Failed to connect to Ollama"}
    [] k = "status"  -> {"Ollama API error"}
    [] k = "read"    -> {"Failed to read response", "Failed to read follow-up response"}
    [] k = "parse"   -> {"Failed to parse response", "Failed to parse follow-up response"}

Failed(o) == o # Absent /\ o[1].kind \in Failures

ReturnsFailure(k) ==
  /\ qpc = "returned" /\ qret # Absent
  /\ ~qret[1].ok
  /\ qret[1].value[1] \in FailureText(k)

\* C18: a transport, status or parse failure of the first or of the second
\* completion call is what quick_answer returns; after a failed first call
\* no tool is executed and no second call is made, and after a failed
\* second call no result text is returned.
C18_CallFailureReturned ==
  /\ Failed(first) =>
       /\ ReturnsFailure(first[1].kind)
       /\ execs = <<>> /\ searches = 0
       /\ Len(sent) = 1 /\ second = Absent
  /\ Failed(second) => ReturnsFailure(second[1].kind)

\* C18 witness: the tool round ran and the second call then failed with a
\* non-success status.
C18_Witness ==
  /\ Failed(second) /\ second[1].kind = "status"
  /\ Len(execs) >= 1
  /\ qret = Some(Err(<<"Ollama API error">>))

NonSuccess(st) == st = "404 Not Found"

\* C19: a non-success status of a completion call is a failure for the
\* caller.  For the two calls of quick_answer the result is an error; for
\* the streaming call of chat_stream no token event is emitted and the
\* command does not return success.
C19_NonSuccessIsFailure ==
  /\ (Failed(first) /\ first[1].kind = "status") => (qret # Absent /\ ~qret[1].ok)
  /\ (Failed(second) /\ second[1].kind = "status") => (qret # Absent /\ ~qret[1].ok)
  /\ NonSuccess(status) =>
       /\ Tokens(events) = <<>>
       /\ spc = "returned" => sret \in {"Err(Ollama API error)"}

EnglishTarget ==
  tin.target \in {Absent, Some(<<>>), Some(<<" ">>), Some(<<"en">>),
                  Some(<<" ", "en", " ">>)}
Cancelled == tret = Some(Err(<<"Cancelled">>))
SourceIsEnglish == tret = Some(Err(<<"Source is English">>))

\* C20: with the target language absent, blank after trimming or "en",
\* translate_text makes one directional call, to English, and no other.
\* When that call detects the source as "en" the command fails with
\* "Source is English", an outcome nothing else produces; when it detects
\* another language the command returns that English translation.
C20_EnglishTarget ==
  /\ (tpc # "start" /\ EnglishTarget) =>
       /\ Len(tcalls) <= 1
       /\ \A i \in 1..Len(tcalls) : tcalls[i] = <<"en">>
       /\ (tpc = "returned" /\ tin.text \notin {<<>>, <<" ">>} /\ ~Cancelled) =>
            Len(tcalls) = 1 /\ Len(tres) = 1
       /\ (tres # <<>> /\ tres[1].ok) =>
            /\ tpc = "returned"
            /\ IF tres[1].value.detected_language = <<"en">>
                 THEN SourceIsEnglish
                 ELSE /\ tret = Some(Ok(tres[1].value))
                      /\ tres[1].value.text = <<"en", ":">> \o tin.text
  /\ SourceIsEnglish =>
       /\ EnglishTarget
       /\ tres[1].ok /\ tres[1].value.detected_language = <<"en">>

\* C20 witness: the target was " en " and the one call detected English.
C20_Witness ==
  /\ tin.target = Some(<<" ", "en", " ">>)
  /\ tcalls = <<(<<"en">>)>>
  /\ Len(tres) = 1 /\ tres[1].ok
  /\ SourceIsEnglish

OtherTarget == tin.target \in {Some(<<"fr">>), Some(<<"fr", " ">>)}
FirstDetected(d) == tres # <<>> /\ tres[1].ok /\ tres[1].value.detected_language = d

\* C21 as stated: with an explicit non-English target, when the first call
\* (to the requested target) detects the source as English, a second call
\* translating to English is made and its translation is returned.
C21_Original ==
  (OtherTarget /\ tpc # "start" /\ FirstDetected(<<"en">>)) =>
     /\ tcalls[1] = <<"fr">>
     /\ Len(tcalls) = 2 /\ tcalls[2] = <<"en">>
     /\ (Len(tres) = 2 /\ tres[2].ok) => tret = Some(tres[2])

\* C21 amended: with an explicit non-English target the first call goes to
\* the requested (trimmed) target.  If it detects the source as English,
\* its translation to the requested target is returned and no second call
\* is made; if it detects any other language, a second call translates to
\* English and the command returns that call's outcome.
C21_Amended ==
  (OtherTarget /\ tpc # "start") =>
     /\ Len(tcalls) >= 1 => tcalls[1] = <<"fr">>
     /\ FirstDetected(<<"en">>) =>
          /\ tpc = "returned" /\ tcalls = <<(<<"fr">>)>> /\ Len(tres) = 1
          /\ tret = Some(Ok(tres[1].value))
          /\ tres[1].value.text = <<"fr", ":">> \o tin.text
     /\ (\E d \in Detected \ {<<"en">>} : FirstDetected(d)) =>
          /\ tcalls = <<(<<"fr">>), (<<"en">>)>>
          /\ (tpc = "returned" /\ ~Cancelled) =>
               /\ Len(tres) = 2 /\ tret = Some(tres[2])
               /\ tres[2].ok => tres[2].value.text = <<"en", ":">> \o tin.text
     /\ (tres # <<>> /\ ~tres[1].ok) =>
          tpc = "returned" /\ Len(tcalls) = 1 /\ tret = Some(tres[1])

\* C21 witness: target "fr", the first call detected French, and the
\* English translation of the second call was returned.
C21_Witness ==
  /\ tin.target = Some(<<"fr">>) /\ tin.text = <<"bonjour">>
  /\ FirstDetected(<<"fr">>)
  /\ Len(tres) = 2 /\ tres[2].ok
  /\ tret = Some(Ok([text |-> <<"en", ":", "bonjour">>,
                     detected_language |-> tres[2].value.detected_language]))

FirstCalls == FirstMessage.tool_calls[1]
WebSearchCalls(calls) == SelectSeq(calls, LAMBDA tc : tc.name = "web_search")
ToolMessages(msgs) == SelectSeq(msgs, LAMBDA m : m.role = "tool")
ToolRoundOver == qpc \in {"second_call", "returned"} /\ Len(sent) = 2

\* C22 as stated: after the tool round the executor has been invoked once
\* per tool call named web_search, and the conversation holds one tool
\* message per such call.
C22_Original ==
  ToolRoundOver =>
    /\ Len(execs) = Len(WebSearchCalls(FirstCalls))
    /\ Len(ToolMessages(sent[2])) = Len(WebSearchCalls(FirstCalls))

C22_State ==
  /\ qpc = "tools" =>
       execs = SearchQueries(SubSeq(FirstCalls, 1, tcIndex - 1))
  /\ ToolRoundOver =>
       /\ execs = SearchQueries(FirstCalls)
       /\ Len(toolResults) = Len(execs)
       /\ ToolMessages(sent[2]) =
            [i \in 1..Len(execs) |->
               [role |-> "tool", content |-> toolResults[i].text,
                tool_calls |-> Absent, tool_name |-> Some("web_search")]]

C22_Step ==
  last'.op = "qa_tool_call" =>
    LET tc == FirstCalls[tcIndex] IN
      IF tc.name = "web_search" /\ tc.query # <<>>
        THEN /\ execs' = Append(execs, tc.query)
             /\ Len(toolResults') = Len(toolResults) + 1
             /\ toolResults'[Len(toolResults')].name = "web_search"
        ELSE /\ execs' = execs /\ toolResults' = toolResults
             /\ searches' = searches

\* C22 amended: in the tool round the executor is invoked once for every
\* tool call of the first response whose name is web_search and whose
\* query is a non-empty string, and one role-tool message is appended per
\* such call, in call order; a call with another name, or a web_search
\* call with an empty or missing query, causes no invocation and no
\* message.
C22_Amended == []C22_State /\ [][C22_Step]_vars

\* C22 witness: of a web_search call without a query and one with a query,
\* only the second was executed and answered by a tool message.
C22_Witness ==
  /\ ToolRoundOver
  /\ Len(FirstCalls) = 2
  /\ FirstCalls[1] = [name |-> "web_search", query |-> <<>>]
  /\ FirstCalls[2] = [name |-> "web_search", query |-> <<"weather">>]
  /\ execs = <<(<<"weather">>)>>
  /\ Len(ToolMessages(sent[2])) = 1

C23_State ==
  /\ Len(sent) <= 2
  /\ second # Absent =>
       /\ qpc = "returned"
       /\ execs = SearchQueries(FirstCalls)
       /\ Len(toolResults) = Len(execs)
       /\ SecondOk =>
            qret = Some(IF second[1].message = Absent
                          THEN Err(<<"No response from model">>)
                          ELSE Ok(second[1].message[1].content))

C23_Step ==
  last'.op = "qa_second_response" =>
    /\ qpc' = "returned"
    /\ UNCHANGED <<sent, messages, execs, searches, toolResults, first>>

\* C23: a run makes at most two completion calls and one tool round.  The
\* second response ends the run: its tool calls are not executed and no
\* request follows; the result is its message text, or "No response from
\* model" when it has no message.
C23_OneToolRound == []C23_State /\ [][C23_Step]_vars

\* C23 witness: the second response carried a web_search call, which was
\* not executed, and its text was returned.
C23_Witness ==
  /\ SecondOk /\ second[1].message # Absent
  /\ second[1].message[1].tool_calls # Absent
  /\ execs = <<(<<"capital">>)>>
  /\ qpc = "returned" /\ qret = Some(Ok(<<"Paris.">>))

Invoked(r) == pc[r] # "idle"

C24_State ==
  /\ \A r, q \in Req : (r # q /\ Invoked(r) /\ Invoked(q)) => id[r] # id[q]
  /\ \A s \in Slots : slots[s] # None => id[slots[s].handle] = slots[s].id

C24_Step ==
  (last'.op = "finish" /\ slots' # slots) =>
    LET s == SlotOfCommand(last'.cmd) IN
      /\ slots[s] # None
      /\ slots[s].handle = last'.req
      /\ slots[s].id = last'.gen

\* C24: no two start calls, on one slot or on both and however their
\* next_id and lock steps interleave, get the same generation; the
\* occupant a finish(slot, g) clears is the request that was given g.
C24_UniqueGenerations == []C24_State /\ [][C24_Step]_vars

\* C24 witness: two requests of one slot drew their generations before
\* either took the lock, installed them out of order, and the finish of
\* the one installed last cleared the slot.
C24_Witness ==
  \E s \in Slots :
    /\ Len(installed[s]) = 2 /\ installed[s][1] > installed[s][2]
    /\ last.op = "finish" /\ last.gen = installed[s][2]
    /\ last.gen \in cleared

AllFinished(s) == \A r \in StartedOn(s) : Finished(r)

\* C25: a slot whose every started request has called finish is empty,
\* under every interleaving of start, cancel and finish; so once the
\* started requests have terminated and no start follows, both slots are
\* empty for good.
C25_NoSlotLeak ==
  /\ [](\A s \in Slots : AllFinished(s) => slots[s] = None)
  /\ <>[](\A s \in Slots : slots[s] = None)

\* C25 witness: two requests of one slot installed their generations out
\* of order, both have finished, and the slot is empty.
C25_Witness ==
  \E s \in Slots :
    /\ Len(installed[s]) = 2 /\ installed[s][1] > installed[s][2]
    /\ StartedOn(s) # {} /\ AllFinished(s)
    /\ Cardinality(StartedOn(s)) = 2
    /\ slots[s] = None

BlankTexts == {<<>>, <<" ">>}
\* Request 2 was invoked with blank text and its future has looked at it.
BlankText2 ==
  \/ kind[2] = "translate_text" /\ tpc # "start" /\ tin.text \in BlankTexts
  \/ kind[2] = "quick_answer" /\ qpc # "start" /\ qin.text \in BlankTexts
Slot2 == SlotOfCommand(kind[2])

C26_State ==
  /\ (tpc # "start" \/ qpc # "start") =>
       /\ Started(2)
       /\ \E i \in 1..Len(installed[Slot2]) : installed[Slot2][i] = id[2]
  /\ BlankText2 =>
       /\ pc[2] \in {"finish", "done"}
       /\ outcome[2] = "EmptyText"
       /\ pc[2] = "done" => ret[2] = "Empty text"
       /\ tcalls = <<>> /\ tres = <<>>
       /\ sent = <<>> /\ execs = <<>> /\ searches = 0
  /\ (BlankText2 /\ installed[Slot2] = <<id[1], id[2]>> /\ id[1] \notin cleared) =>
       aborts[1] = 1

C26_Step ==
  (last'.op = "start" /\ last'.req = 2) =>
    LET occ == slots[Slot2] IN
      /\ tpc = "start" /\ qpc = "start"
      /\ slots'[Slot2] = RequestSlot(id[2], 2)
      /\ occ # None => aborts'[occ.handle] = aborts[occ.handle] + 1

\* C26: a quick_answer or translate_text invocation with blank text
\* returns "Empty text" without a completion, search or translation call,
\* but only after its start has run: start signals the abort handle of
\* the occupant it finds and installs the new request before the text is
\* looked at, so the blank request pre-empts a request in flight.
C26_BlankPreempts == []C26_State /\ [][C26_Step]_vars

\* C26 witness: request 1 was in flight on the translation slot, request 2
\* came with blank text and returned "Empty text", no cancel command ran,
\* and request 1 returned "Cancelled".
C26_Witness ==
  /\ kind[1] = "translate_text" /\ kind[2] = "translate_text"
  /\ BlankText2
  /\ pc[2] = "done" /\ ret[2] = "Empty text"
  /\ pc[1] = "done" /\ ret[1] = "Cancelled"
  /\ \A w \in {"inflight", "empty"} : cancelReturns[w] = {}
  /\ tcalls = <<>>

\* The bytes behind the last newline.
UnterminatedTail(bytes) ==
  SubSeq(bytes, MaxOf({0} \cup Nls(bytes)) + 1, Len(bytes))

C27_State ==
  /\ spc = "reading" => buffer = UnterminatedTail(received)
  /\ Len(Tokens(events)) <= Cardinality(Nls(received))
  /\ Tokens(events) = ExpectedTokens(received)
  /\ (spc = "returned" /\ last.op = "stream_end") =>
       /\ buffer = UnterminatedTail(received)
       /\ DoneCount(events) = 1 /\ events[Len(events)] = DoneEvent
       /\ sret = "Ok(())"

C27_Step ==
  last'.op = "stream_end" =>
    /\ events' = Append(events, DoneEvent)
    /\ buffer' = buffer

\* C27: token events come from newline-terminated lines only.  When the
\* stream ends, the bytes buffered behind the last newline are dropped
\* unparsed: an unterminated last line gives no token event, its done
\* flag is not read, and the one event that follows is the end-of-stream
\* done event.
C27_TailDiscarded == []C27_State /\ [][C27_Step]_vars

\* C27 witness: the stream ended behind a terminated token line and an
\* unterminated line carrying content and done: one token, then done.
C27_Witness ==
  /\ last.op = "stream_end"
  /\ received = <<"{", "c", "nl", "{", "c", "d">>
  /\ buffer = <<"{", "c", "d">>
  /\ events = <<TokenEvent(<<"c">>), DoneEvent>>

====
